---- MODULE Spec2Model ----
(***************************************************************************)
(* Model of backend/confluence.py: the TTL cache in front of yf.download,  *)
(* the per-timeframe analysis, the confluence percent of one instrument    *)
(* and the batch over PAIRS.                                               *)
(*                                                                         *)
(* Prices are integers (one unit = one price tick).  The EMA is carried in *)
(* fixed point with SCALE units per price tick; pandas carries it in       *)
(* IEEE doubles.                                                           *)
(***************************************************************************)
EXTENDS Integers, Sequences, FiniteSets, TLC

VARIABLES
    clock,      \* time.time(), in seconds
    CACHE,      \* the module-level dict CACHE: key -> [ts, df]
    th,         \* per thread: program counter and the locals of its frames
    log,        \* history: the completed _cached_download calls of the caller
    calls,      \* history: the number of top-level calls made
    provider,   \* the answers the external source (yf.download) may give
    legacy      \* the installed pandas takes pd.date_range(closed=...) (< 2.0)

vars == <<clock, CACHE, th, log, calls, provider, legacy>>

----------------------------------------------------------------------------
(* Bounds of the model *)

\* seconds that pass in one Tick
TickStep == 90
\* number of Ticks a behaviour may take
MaxTicks == 3
\* number of top-level calls a behaviour may make
MaxCalls == 2
\* number of instruments of PAIRS the batch runs over
NumPairs == 2
\* fixed-point units per price tick for the EMA
SCALE == 1000

----------------------------------------------------------------------------
(* Configuration: confluence.py lines 44-84 *)

ALL_PAIRS ==
    << [Pair |-> "EUR/USD", Symbol |-> "EURUSD=X"],
       [Pair |-> "GBP/USD", Symbol |-> "GBPUSD=X"],
       [Pair |-> "USD/JPY", Symbol |-> "USDJPY=X"],
       [Pair |-> "USD/CHF", Symbol |-> "USDCHF=X"],
       [Pair |-> "AUD/USD", Symbol |-> "AUDUSD=X"],
       [Pair |-> "NZD/USD", Symbol |-> "NZDUSD=X"],
       [Pair |-> "USD/CAD", Symbol |-> "USDCAD=X"],
       [Pair |-> "EUR/GBP", Symbol |-> "EURGBP=X"],
       [Pair |-> "EUR/JPY", Symbol |-> "EURJPY=X"],
       [Pair |-> "GBP/JPY", Symbol |-> "GBPJPY=X"],
       [Pair |-> "AUD/JPY", Symbol |-> "AUDJPY=X"],
       [Pair |-> "AUD/NZD", Symbol |-> "AUDNZD=X"],
       [Pair |-> "CHF/JPY", Symbol |-> "CHFJPY=X"],
       [Pair |-> "USD/TRY", Symbol |-> "USDTRY=X"],
       [Pair |-> "USD/ZAR", Symbol |-> "USDZAR=X"],
       [Pair |-> "USD/MXN", Symbol |-> "USDMXN=X"],
       [Pair |-> "S&P 500", Symbol |-> "^GSPC"],
       [Pair |-> "Dow Jones", Symbol |-> "^DJI"],
       [Pair |-> "Nasdaq", Symbol |-> "^IXIC"],
       [Pair |-> "FTSE 100", Symbol |-> "^FTSE"],
       [Pair |-> "DAX", Symbol |-> "^GDAXI"],
       [Pair |-> "Gold", Symbol |-> "GC=F"],
       [Pair |-> "Silver", Symbol |-> "SI=F"] >>

\* the instruments the batch iterates: the first NumPairs entries of the list
PAIRS == SubSeq(ALL_PAIRS, 1, IF NumPairs < Len(ALL_PAIRS) THEN NumPairs ELSE Len(ALL_PAIRS))

\* TF_SETTINGS.keys(), in insertion order
TF_KEYS == <<"Weekly", "Daily", "H4", "H1">>

TF_SETTINGS ==
    [tf \in {"Weekly", "Daily", "H4", "H1"} |->
        CASE tf = "Weekly" -> [interval |-> "1wk", lookback_days |-> 365 * 2]
          [] tf = "Daily"  -> [interval |-> "1d",  lookback_days |-> 365]
          [] tf = "H4"     -> [interval |-> "4h",  lookback_days |-> 60]
          [] tf = "H1"     -> [interval |-> "1h",  lookback_days |-> 14]]

CACHE_TTL == 60 * 3

DOWNLOAD_RETRIES == 2

\* seconds in one day: datetime.utcnow().date() changes every DAY seconds
DAY == 86400

----------------------------------------------------------------------------
(* Data frames.  A frame is [kind, multi, idxok, cols, rows]: kind "None"  *)
(* is Python's None, "frame" a pandas DataFrame; multi says the columns    *)
(* are a MultiIndex (level 0 = cols); idxok says pd.to_datetime accepts    *)
(* the index; rows are [t, Open, High, Low, Close, Adj] in frame order,    *)
(* t in hours, hour 0 a Monday 00:00.                                      *)

NoneDF == [kind |-> "None", multi |-> FALSE, idxok |-> TRUE, cols |-> {}, rows |-> <<>>]

IsNone(df) == df.kind = "None"

Frame(cols, rows) ==
    [kind |-> "frame", multi |-> FALSE, idxok |-> TRUE, cols |-> cols, rows |-> rows]

\* df.empty
Empty(df) == Len(df.rows) = 0 \/ df.cols = {}

Bar(t, o, h, l, c) == [t |-> t, Open |-> o, High |-> h, Low |-> l, Close |-> c, Adj |-> c]

\* the columns yfinance gives
OHLCV == {"Open", "High", "Low", "Close", "Volume"}

\* insert row r into the sorted sequence s, after the rows with the same t
RECURSIVE InsertRow(_, _)
InsertRow(s, r) ==
    IF s = <<>> THEN <<r>>
    ELSE IF r.t < Head(s).t THEN <<r>> \o s
    ELSE <<Head(s)>> \o InsertRow(Tail(s), r)

\* df.sort_index(): rows in ascending timestamp order, duplicates kept
RECURSIVE SortIndex(_)
SortIndex(rows) ==
    IF rows = <<>> THEN <<>>
    ELSE InsertRow(SortIndex(SubSeq(rows, 1, Len(rows) - 1)), rows[Len(rows)])

\* df["Close"] = df["Adj Close"]
CloseFromAdj(rows) == [i \in 1..Len(rows) |-> [rows[i] EXCEPT !.Close = rows[i].Adj]]

\* What one attempt of the retry loop makes of the source's answer r:
\* [ok, df].  r.kind "raise" is yf.download raising.
AttemptResult(r) ==
    IF r.kind = "raise" THEN [ok |-> FALSE, df |-> NoneDF]
    ELSE IF IsNone(r) \/ Empty(r) THEN [ok |-> FALSE, df |-> NoneDF]
    ELSE IF "Close" \notin r.cols /\ "Adj Close" \notin r.cols
         THEN [ok |-> FALSE, df |-> NoneDF]
    ELSE IF ~r.idxok THEN [ok |-> FALSE, df |-> NoneDF]
    ELSE [ok |-> TRUE,
          df |-> [kind |-> "frame", multi |-> FALSE, idxok |-> TRUE,
                  cols |-> r.cols \cup {"Close"},
                  rows |-> SortIndex(IF "Close" \in r.cols THEN r.rows
                                     ELSE CloseFromAdj(r.rows))]]

\* history only: the kind of the source's answer r, in the words of the log
\* messages of lines 120, 133 and 145
AnswerKind(r) ==
    IF r.kind = "raise" THEN "raise"
    ELSE IF IsNone(r) \/ Empty(r) THEN "empty"
    ELSE IF "Close" \notin r.cols /\ "Adj Close" \notin r.cols THEN "noclose"
    ELSE IF ~r.idxok THEN "raise"
    ELSE "ok"

----------------------------------------------------------------------------
(* The cache *)

NoEntry == [present |-> FALSE, ts |-> 0, df |-> NoneDF]

Entry(ts, df) == [present |-> TRUE, ts |-> ts, df |-> df]

\* key = (symbol, interval, start if start else "")
CacheKey(symbol, interval, start) == <<symbol, interval, start>>

\* CACHE.get(key)
CacheGet(c, key) == IF key \in DOMAIN c THEN c[key] ELSE NoEntry

\* a store that drops the entries of the other keys
CachePut_ClearsOthers(c, key, ts, df) == [k \in {key} |-> Entry(ts, df)]

\* CACHE[key] = (ts, df)
CachePut(c, key, ts, df) ==
    [k \in DOMAIN c \cup {key} |-> IF k = key THEN Entry(ts, df) ELSE c[k]]

\* CACHE.pop(key, None)
CachePop(c, key) == [k \in DOMAIN c \ {key} |-> c[k]]

\* now - ts < CACHE_TTL
Live(now, ts) == now - ts < CACHE_TTL

----------------------------------------------------------------------------
(* Indicators, lines 174-333 *)

Abs(x) == IF x < 0 THEN -x ELSE x

Max(a, b) == IF a >= b THEN a ELSE b

Min(a, b) == IF a <= b THEN a ELSE b

Column(rows, f) == [i \in 1..Len(rows) |-> rows[i][f]]

\* s.tail(n)
TailN(s, n) == IF Len(s) <= n THEN s ELSE SubSeq(s, Len(s) - n + 1, Len(s))

\* the step with the correction added to the close, not to the last EMA
EmaStep_FromClose(e, c, span) == c * SCALE + (2 * (c * SCALE - e)) \div (span + 1)

\* one step of ewm(span, adjust=False): e*(1-a) + c*a with a = 2/(span+1),
\* e in fixed point, rounded down
EmaStep(e, c, span) == e + (2 * (c * SCALE - e)) \div (span + 1)

\* the EMA of the bars of s that follow a bar whose EMA is e0; the scan of
\* ewm(...).mean() over s, split in halves to keep the evaluation shallow
RECURSIVE EmaRun(_, _, _)
EmaRun(e0, s, span) ==
    IF Len(s) = 0 THEN <<>>
    ELSE IF Len(s) = 1 THEN <<EmaStep(e0, s[1], span)>>
    ELSE LET h     == Len(s) \div 2
             left  == EmaRun(e0, SubSeq(s, 1, h), span)
             right == EmaRun(left[h], SubSeq(s, h + 1, Len(s)), span)
         IN left \o right

\* _ema(series, span): the EMA of every bar, in fixed point; the first
\* value is the first close (adjust=False)
_ema(series, span) ==
    IF Len(series) = 0 THEN <<>>
    ELSE <<series[1] * SCALE>> \o EmaRun(series[1] * SCALE, Tail(series), span)

\* the true range of bar i: max(high-low, |high-prev close|, |low-prev close|)
TrueRange(rows, i) ==
    LET hl == rows[i].High - rows[i].Low IN
    IF i = 1 THEN hl
    ELSE Max(hl, Max(Abs(rows[i].High - rows[i - 1].Close),
                     Abs(rows[i].Low - rows[i - 1].Close)))

RECURSIVE SumTR(_, _, _)
SumTR(rows, lo, hi) == IF lo > hi THEN 0 ELSE TrueRange(rows, hi) + SumTR(rows, lo, hi - 1)

\* _atr(df, length).iloc[-1] as the fraction sum/cnt, or none when _atr raised
_atr(df, length) ==
    IF ~({"High", "Low", "Close"} \subseteq df.cols) \/ Len(df.rows) = 0
    THEN [none |-> TRUE, sum |-> 0, cnt |-> 1]
    ELSE LET n == Len(df.rows) IN
         [none |-> FALSE, sum |-> SumTR(df.rows, Max(1, n - length + 1), n),
          cnt |-> Min(n, length)]

RECURSIVE SumSeq(_)
SumSeq(s) == IF s = <<>> THEN 0 ELSE Head(s) + SumSeq(Tail(s))

\* the sign of np.polyfit(np.arange(len(y)), y, 1)[0], the least-squares slope
SlopeSign(y) ==
    LET n  == Len(y)
        sx == SumSeq([i \in 1..n |-> i - 1])
        sy == SumSeq(y)
        sxy == SumSeq([i \in 1..n |-> (i - 1) * y[i]])
        d  == n * sxy - sx * sy
    IN IF d > 0 THEN 1 ELSE IF d < 0 THEN -1 ELSE 0

_detect_structure_FromThreeBars(df, lookback) ==
    IF IsNone(df) \/ Empty(df) \/ Len(df.rows) < 3 THEN "UNKNOWN"
    ELSE LET highs == TailN(Column(df.rows, "High"), lookback)
             lows  == TailN(Column(df.rows, "Low"), lookback)
         IN IF SlopeSign(highs) > 0 /\ SlopeSign(lows) > 0 THEN "HH_HL"
            ELSE IF SlopeSign(highs) < 0 /\ SlopeSign(lows) < 0 THEN "LH_LL"
            ELSE "RANGE"

\* _detect_structure(df, lookback), lines 192-224
_detect_structure(df, lookback) ==
    IF IsNone(df) \/ Empty(df) \/ Len(df.rows) < 6 THEN "UNKNOWN"
    ELSE IF ~({"High", "Low"} \subseteq df.cols) THEN "UNKNOWN"
    ELSE LET highs == TailN(Column(df.rows, "High"), lookback)
             lows  == TailN(Column(df.rows, "Low"), lookback)
         IN IF Len(highs) < 3 \/ Len(lows) < 3 THEN "UNKNOWN"
            ELSE IF SlopeSign(highs) > 0 /\ SlopeSign(lows) > 0 THEN "HH_HL"
            ELSE IF SlopeSign(highs) < 0 /\ SlopeSign(lows) < 0 THEN "LH_LL"
            ELSE "RANGE"

\* the strict local maxima of all the interior bars of v
LocalMaxima_WholeSeries(v) ==
    LET found == {i \in 1..(Len(v) - 2) : v[i + 1] > v[i] /\ v[i + 1] > v[i + 2]}
        RECURSIVE ascending(_)
        ascending(S) == IF S = {} THEN <<>>
                        ELSE LET m == CHOOSE x \in S : \A y \in S : y <= x
                             IN Append(ascending(S \ {m}), m)
    IN ascending(found)

\* the 0-based indices i of range(1, min(len(v)-1, 200)) that are strict local
\* maxima of v, in ascending order (v is 1-based here)
LocalMaxima(v) ==
    LET top == Min(Len(v) - 1, 200) - 1
        found == {i \in 1..top : v[i + 1] > v[i] /\ v[i + 1] > v[i + 2]}
        RECURSIVE ascending(_)
        ascending(S) == IF S = {} THEN <<>>
                        ELSE LET m == CHOOSE x \in S : \A y \in S : y <= x
                             IN Append(ascending(S \ {m}), m)
    IN ascending(found)

Negate(v) == [i \in 1..Len(v) |-> -v[i]]

\* lines 256-268 (and 270-277 on the negated lows): the last two swings rise
\* and the last one is within the last 8 bars
SwingBreak(v, swings) ==
    /\ Len(swings) >= 2
    /\ v[swings[Len(swings)] + 1] > v[swings[Len(swings) - 1] + 1]
    /\ Len(v) - swings[Len(swings)] <= 8

\* _detect_bos(df), lines 227-282
_detect_bos(df) ==
    IF IsNone(df) \/ Empty(df) \/ Len(df.rows) < 6 THEN ""
    ELSE IF ~({"High", "Low"} \subseteq df.cols) THEN ""
    ELSE LET h == Column(df.rows, "High")
             l == Negate(Column(df.rows, "Low"))
         IN IF SwingBreak(h, LocalMaxima(h)) THEN " (BOS_up)"
            ELSE IF SwingBreak(l, LocalMaxima(l)) THEN " (BOS_down)"
            ELSE ""

\* Python's None where a string is expected
None == "None"

\* _compose_label, lines 285-308
_compose_label(trend_label, structure_label, bos_label) ==
    LET base == IF trend_label = None THEN "No Trend" ELSE trend_label
        struct == IF structure_label # "" /\ structure_label # "UNKNOWN"
                  THEN " (" \o structure_label \o ")" ELSE ""
    IN base \o struct \o bos_label

\* _is_strong(trend_pct, atr, price), lines 311-333: trend_pct = pct.n / pct.d
\* with pct.d > 0; the thresholds 0.008, 0.008*0.8 and 0.008*1.25 are the
\* fractions 1/125, 4/625 and 1/100
_is_strong(pct, atr, price) ==
    IF price = 0 THEN FALSE
    ELSE LET low  == ~atr.none /\ atr.sum > 0
                     /\ (price < 0 \/ atr.sum * 1000 < 2 * atr.cnt * price)
             high == ~atr.none /\ atr.sum > 0 /\ ~low
                     /\ atr.sum * 100 > 2 * atr.cnt * price
         IN IF low THEN Abs(pct.n) * 625 >= 4 * pct.d
            ELSE IF high THEN Abs(pct.n) * 100 >= pct.d
            ELSE Abs(pct.n) * 125 >= pct.d

\* the EMA period of a timeframe, lines 372-377
EmaPeriod(tf) == IF tf \in {"Weekly", "Daily"} THEN 200 ELSE IF tf = "H4" THEN 50 ELSE 20

\* lines 346-353: the analysis _analyze_tf starts from
NoDataAnalysis == [trend_label |-> None, structure |-> "UNKNOWN", bos |-> "", label |-> "No Data"]

\* lines 389-404: the label of a trend distance and its strong flag
TrendLabel(pct, strong_flag) ==
    LET lbl == IF pct.n > 0 THEN "Bullish" ELSE IF pct.n < 0 THEN "Bearish" ELSE "Neutral" IN
    IF strong_flag
    THEN (IF lbl = "Bullish" THEN "Strong Bullish"
          ELSE IF lbl = "Bearish" THEN "Strong Bearish" ELSE "Neutral")
    ELSE lbl

\* lines 359-364: close = df["Close"].dropna(); price = float(close.iloc[-1])
LastPrice(df) == df.rows[Len(df.rows)].Close

\* lines 379-382: ema_val = float(_ema(close, ema_period).iloc[-1]), fixed point
LastEma(df, tf) ==
    LET ema == _ema(Column(df.rows, "Close"), EmaPeriod(tf)) IN ema[Len(ema)]

\* line 385: the divisor ema_val if ema_val != 0 else price, fixed point
TrendDen(df, tf) ==
    IF LastEma(df, tf) # 0 THEN LastEma(df, tf) ELSE LastPrice(df) * SCALE

\* line 385: trend_pct = (price - ema_val) / divisor as the fraction n / d
\* with d > 0
TrendPct(df, tf) ==
    LET den == TrendDen(df, tf) IN
    IF den < 0 THEN [n |-> LastEma(df, tf) - LastPrice(df) * SCALE, d |-> -den]
    ELSE [n |-> LastPrice(df) * SCALE - LastEma(df, tf), d |-> den]

\* _analyze_tf(df, tf), lines 336-427 (the atr and price fields of the result
\* are not carried)
_analyze_tf(df, tf) ==
    IF IsNone(df) \/ Empty(df) THEN NoDataAnalysis
    ELSE IF "Close" \notin df.cols THEN NoDataAnalysis
    ELSE LET price == LastPrice(df)
             atr   == _atr(df, 14)
             pct   == TrendPct(df, tf)
         IN IF TrendDen(df, tf) = 0 THEN NoDataAnalysis
            ELSE LET trend_label == TrendLabel(pct, _is_strong(pct, atr, price))
                     structure == _detect_structure(df, 12)
                     bos == _detect_bos(df)
                 IN [trend_label |-> trend_label, structure |-> structure, bos |-> bos,
                     label |-> _compose_label(trend_label, structure, bos)]

----------------------------------------------------------------------------
(* Threads.  Each thread holds its program counter and the locals of the   *)
(* functions on its stack.  Thread 1 is the only one that runs in the      *)
(* single-threaded specifications.                                         *)

Threads == {1, 2}

NoKey == <<"", "", "">>

IdleThread ==
    [pc      |-> "idle",
     \* _cached_download
     key     |-> NoKey,     \* key
     now     |-> 0,         \* now = time.time()
     cached  |-> NoEntry,   \* cached = CACHE.get(key)
     attempt |-> 0,         \* the loop variable: attempts started so far
     inv     |-> 0,         \* history: yf.download invocations of this call
     hit     |-> FALSE,     \* history: the call returned at "CACHE HIT"
     outs    |-> <<>>,      \* history: what each attempt of this call got
     df      |-> NoneDF,    \* df
     ret     |-> NoneDF,    \* the value returned
     retpc   |-> "idle",    \* where _cached_download returns to
     \* _compute_for_symbol
     symbol  |-> "",        \* symbol
     today   |-> 0,         \* now = datetime.utcnow().date(), as a day number
     dfs     |-> <<>>,      \* dfs
     res     |-> <<>>,      \* the record returned
     cretpc  |-> "idle",    \* where _compute_for_symbol returns to
     raised  |-> FALSE,     \* history: res was built by the except branch
     rule    |-> 0,         \* _resample_from_daily: hours of its rule argument
     rdf     |-> NoneDF,    \* _resample_from_daily: its return value
     lookback |-> 0,        \* _detect_structure: lookback
     sret    |-> "",        \* the string _detect_structure or _detect_bos returned
     \* get_confluence
     gi      |-> 0,         \* the position of p in PAIRS
     out     |-> <<>>,      \* out
     \* a direct call of _analyze_tf
     adf     |-> NoneDF,    \* df
     atf     |-> "",        \* tf
     analysis |-> <<>>]     \* the dict returned

\* th with thread t's fields changed as the record upd says
Upd(t, upd) ==
    [th EXCEPT ![t] = upd @@ th[t]]

----------------------------------------------------------------------------
(* _cached_download, lines 96-150 *)

\* lines 96-99: the call binds key and reads the clock
DownloadFrame(symbol, interval, start, retpc) ==
    [pc |-> "dl_lookup", key |-> CacheKey(symbol, interval, start),
     now |-> clock, cached |-> NoEntry, attempt |-> 0, inv |-> 0,
     hit |-> FALSE, outs |-> <<>>, df |-> NoneDF, ret |-> NoneDF, retpc |-> retpc]

EnterDownload(t, symbol, interval, start, retpc) ==
    Upd(t, DownloadFrame(symbol, interval, start, retpc))

IsHit_IgnoresStoredNone(cached, now) ==
    cached.present /\ Live(now, cached.ts) /\ ~IsNone(cached.df)

\* the entry the lookup treats as a hit
IsHit(cached, now) == cached.present /\ Live(now, cached.ts)

\* lines 102-108: cached = CACHE.get(key); a live entry is returned as it is
DlLookup(t) ==
    /\ th[t].pc = "dl_lookup"
    /\ LET cached == CacheGet(CACHE, th[t].key) IN
        IF IsHit(cached, th[t].now)
        THEN th' = Upd(t, [pc |-> th[t].retpc, cached |-> cached, hit |-> TRUE,
                           ret |-> cached.df])
        ELSE IF cached.present
        THEN th' = Upd(t, [pc |-> "dl_pop", cached |-> cached])
        ELSE th' = Upd(t, [pc |-> "dl_attempt", cached |-> cached])
    /\ UNCHANGED <<clock, CACHE, log, calls, provider, legacy>>

\* line 109: an expired entry is removed
DlPop(t) ==
    /\ th[t].pc = "dl_pop"
    /\ CACHE' = CachePop(CACHE, th[t].key)
    /\ th' = Upd(t, [pc |-> "dl_attempt"])
    /\ UNCHANGED <<clock, log, calls, provider, legacy>>

MoreAttempts_OneTooMany(attempt, retries) == attempt < retries + 2

\* range(1, retries + 2) has another value after `attempt` attempts
MoreAttempts(attempt, retries) == attempt < retries + 1

\* lines 116-139 and 144-146: one pass of the retry loop on the answer r
DlAttempt(t, r) ==
    /\ th[t].pc = "dl_attempt"
    /\ MoreAttempts(th[t].attempt, DOWNLOAD_RETRIES)
    /\ LET a == AttemptResult(r) IN
        IF a.ok
        THEN th' = Upd(t, [pc |-> "dl_store", attempt |-> th[t].attempt + 1,
                           inv |-> th[t].inv + 1, df |-> a.df,
                           outs |-> Append(th[t].outs, AnswerKind(r))])
        ELSE th' = Upd(t, [attempt |-> th[t].attempt + 1, inv |-> th[t].inv + 1,
                           outs |-> Append(th[t].outs, AnswerKind(r))])
    /\ UNCHANGED <<clock, CACHE, log, calls, provider, legacy>>

\* lines 141-142: CACHE[key] = (now, df); return df
DlStore(t) ==
    /\ th[t].pc = "dl_store"
    /\ CACHE' = CachePut(CACHE, th[t].key, th[t].now, th[t].df)
    /\ th' = Upd(t, [pc |-> th[t].retpc, ret |-> th[t].df])
    /\ UNCHANGED <<clock, log, calls, provider, legacy>>

\* lines 149-150: after the loop, CACHE[key] = (now, None); return None
DlGiveUp(t) ==
    /\ th[t].pc = "dl_attempt"
    /\ ~MoreAttempts(th[t].attempt, DOWNLOAD_RETRIES)
    /\ CACHE' = CachePut(CACHE, th[t].key, th[t].now, NoneDF)
    /\ th' = Upd(t, [pc |-> th[t].retpc, ret |-> NoneDF, df |-> NoneDF])
    /\ UNCHANGED <<clock, log, calls, provider, legacy>>

\* time passes: between calls, and inside yf.download and time.sleep
Tick ==
    /\ \E t \in Threads : th[t].pc \in {"idle", "dl_attempt"}
    /\ clock < (DAY - TickStep) + MaxTicks * TickStep
    /\ clock' = clock + TickStep
    /\ UNCHANGED <<CACHE, th, log, calls, provider, legacy>>

----------------------------------------------------------------------------
(* Sample data of the external source *)

\* two bars, rising close, narrow range
RisingRows == <<Bar(0, 100, 100, 100, 100), Bar(24, 101, 101, 101, 101)>>

\* two bars, falling close, given newest first
FallingRowsUnsorted == <<Bar(24, 99, 99, 99, 99), Bar(0, 100, 100, 100, 100)>>

RaiseAnswer == [kind |-> "raise", multi |-> FALSE, idxok |-> TRUE, cols |-> {}, rows |-> <<>>]

EmptyAnswer == Frame(OHLCV, <<>>)

NoCloseAnswer == Frame({"Open", "High", "Low", "Volume"}, RisingRows)

BadIndexAnswer == [Frame(OHLCV, RisingRows) EXCEPT !.idxok = FALSE]

AdjOnlyAnswer ==
    [Frame({"Open", "High", "Low", "Adj Close", "Volume"},
           [i \in 1..2 |-> [RisingRows[i] EXCEPT !.Close = 0]]) EXCEPT !.multi = TRUE]

\* three rows, newest first, the newest given twice
DuplicateRowsAnswer ==
    Frame(OHLCV, <<Bar(24, 99, 99, 99, 99), Bar(0, 100, 100, 100, 100),
                   Bar(24, 98, 98, 98, 98)>>)

FailAnswers == {RaiseAnswer, EmptyAnswer, NoneDF, NoCloseAnswer, BadIndexAnswer}

\* the source of the cache specification
CacheProvider ==
    FailAnswers \cup {DuplicateRowsAnswer, AdjOnlyAnswer}

----------------------------------------------------------------------------
(* Specification Spec: one thread calls _cached_download over and over *)

\* the (symbol, interval, start) a caller passes
DownloadArgs ==
    { <<"EURUSD=X", "1d", "2025-01-01">>,
      <<"EURUSD=X", "1d", "2025-01-02">>,
      <<"GBPUSD=X", "1h", "">> }

\* history only: what a finished call of thread t did (fetched: it invoked
\* yf.download at least once)
CallRecord(t) ==
    [key |-> th[t].key, now |-> th[t].now, fetched |-> th[t].inv > 0,
     hit |-> th[t].hit, ret |-> th[t].ret]

CallDownload(t, a) ==
    /\ th[t].pc = "idle"
    /\ calls < MaxCalls
    /\ calls' = calls + 1
    /\ th' = EnterDownload(t, a[1], a[2], a[3], "dl_returned")
    /\ UNCHANGED <<clock, CACHE, log, provider, legacy>>

\* the caller has the value; the call is written to the history
ReturnDownload(t) ==
    /\ th[t].pc = "dl_returned"
    /\ log' = Append(log, CallRecord(t))
    /\ th' = [th EXCEPT ![t] = IdleThread]
    /\ UNCHANGED <<clock, CACHE, calls, provider, legacy>>

InitCommon ==
    /\ clock = DAY - TickStep
    /\ CACHE = <<>>
    /\ th = [t \in Threads |-> IdleThread]
    /\ log = <<>>
    /\ calls = 0

Init ==
    /\ InitCommon
    /\ provider = CacheProvider
    /\ legacy = TRUE

Next ==
    \/ Tick
    \/ \E a \in DownloadArgs : CallDownload(1, a)
    \/ DlLookup(1)
    \/ DlPop(1)
    \/ \E r \in provider : DlAttempt(1, r)
    \/ DlStore(1)
    \/ DlGiveUp(1)
    \/ ReturnDownload(1)

Spec == Init /\ [][Next]_vars

----------------------------------------------------------------------------
(* _resample_from_daily and the weekly fallback, lines 153-171 and 462-466 *)

HasDuplicateIndex(rows) == \E i, j \in 1..Len(rows) : i < j /\ rows[i].t = rows[j].t

MinT(rows) == CHOOSE x \in {rows[i].t : i \in 1..Len(rows)} :
                  \A i \in 1..Len(rows) : x <= rows[i].t

MaxT(rows) == CHOOSE x \in {rows[i].t : i \in 1..Len(rows)} :
                  \A i \in 1..Len(rows) : x >= rows[i].t

\* the position of the last row with rows[i].t <= ts (reindex, method="ffill")
LastAtOrBefore(rows, ts) ==
    CHOOSE i \in 1..Len(rows) :
        /\ rows[i].t <= ts
        /\ \A j \in 1..Len(rows) : rows[j].t <= ts => j <= i

\* _resample_from_daily(daily_df, rule) with rule = "<step>H": the calendar
\* date_range(min, max + 1 day, freq=rule, closed="left"), forward-filled.
\* None when anything raises: a column is missing, the index has duplicates,
\* or the installed pandas has no closed= argument.
_resample_from_daily(daily_df, step, closed_ok) ==
    IF IsNone(daily_df) \/ Empty(daily_df) THEN NoneDF
    ELSE IF ~closed_ok THEN NoneDF
    ELSE IF ~({"Open", "High", "Low", "Close"} \subseteq daily_df.cols) THEN NoneDF
    ELSE IF HasDuplicateIndex(daily_df.rows) THEN NoneDF
    ELSE LET start == MinT(daily_df.rows)
             end   == MaxT(daily_df.rows) + 24
             n     == (end - start + step - 1) \div step
         IN Frame(OHLCV,
                  [k \in 1..n |->
                      LET ts == start + (k - 1) * step
                          src == daily_df.rows[LastAtOrBefore(daily_df.rows, ts)]
                      IN [src EXCEPT !.t = ts, !.Adj = src.Close]])

\* the week (Monday to Sunday) of hour t
WeekOf(t) == (t \div 24) \div 7

\* dfs["Daily"].resample("W").agg(first, max, min, last, sum) for rows in
\* ascending order with no empty week between two bars; None when agg raises
\* (a column is missing)
WeeklyFromDaily(daily_df) ==
    IF ~(OHLCV \subseteq daily_df.cols) THEN NoneDF
    ELSE LET rows == daily_df.rows
             weeks == {WeekOf(rows[i].t) : i \in 1..Len(rows)}
             w0 == CHOOSE w \in weeks : \A v \in weeks : w <= v
             In(w) == {i \in 1..Len(rows) : WeekOf(rows[i].t) = w}
             first(w) == CHOOSE i \in In(w) : \A j \in In(w) : i <= j
             last(w) == CHOOSE i \in In(w) : \A j \in In(w) : i >= j
             hi(w) == CHOOSE x \in {rows[i].High : i \in In(w)} :
                          \A i \in In(w) : x >= rows[i].High
             lo(w) == CHOOSE x \in {rows[i].Low : i \in In(w)} :
                          \A i \in In(w) : x <= rows[i].Low
         IN Frame(OHLCV,
                  [k \in 1..Cardinality(weeks) |->
                      LET w == w0 + k - 1 IN
                      [t |-> (w * 7 + 6) * 24, Open |-> rows[first(w)].Open,
                       High |-> hi(w), Low |-> lo(w),
                       Close |-> rows[last(w)].Close, Adj |-> rows[last(w)].Close]])

----------------------------------------------------------------------------
(* _compute_for_symbol, lines 430-529 *)

TFS == {"Weekly", "Daily", "H4", "H1"}

\* the order of the four downloads, lines 450-455
FETCH_ORDER == <<"Daily", "Weekly", "H4", "H1">>

\* date.isoformat() of day number d
IsoFormat(d) == ToString(d)

\* the start argument of the download of tf, lines 445-455
StartOf(tf, today) ==
    IF tf \in {"Daily", "Weekly"} THEN IsoFormat(today - TF_SETTINGS[tf].lookback_days)
    ELSE ""

WithFallback_Always(dfs, closed_ok) ==
    LET h4 == IF ~IsNone(dfs["Daily"])
              THEN _resample_from_daily(dfs["Daily"], 4, closed_ok) ELSE dfs["H4"]
        h1 == IF ~IsNone(dfs["Daily"])
              THEN _resample_from_daily(dfs["Daily"], 1, closed_ok) ELSE dfs["H1"]
        wk == IF ~IsNone(dfs["Daily"])
              THEN WeeklyFromDaily(dfs["Daily"]) ELSE dfs["Weekly"]
    IN [tf \in TFS |-> CASE tf = "H4" -> h4 [] tf = "H1" -> h1
                         [] tf = "Weekly" -> wk [] OTHER -> dfs[tf]]

\* lines 457-466: dfs after the fallback resampling
WithFallback(dfs, closed_ok) ==
    LET h4 == IF IsNone(dfs["H4"]) /\ ~IsNone(dfs["Daily"])
              THEN _resample_from_daily(dfs["Daily"], 4, closed_ok) ELSE dfs["H4"]
        h1 == IF IsNone(dfs["H1"]) /\ ~IsNone(dfs["Daily"])
              THEN _resample_from_daily(dfs["Daily"], 1, closed_ok) ELSE dfs["H1"]
        wk == IF IsNone(dfs["Weekly"]) /\ ~IsNone(dfs["Daily"])
              THEN WeeklyFromDaily(dfs["Daily"]) ELSE dfs["Weekly"]
    IN [tf \in TFS |-> CASE tf = "H4" -> h4 [] tf = "H1" -> h1
                         [] tf = "Weekly" -> wk [] OTHER -> dfs[tf]]

\* lines 484-490: "bull", "bear" or "neutral" for one analysis
DirFlag(d) ==
    IF d.trend_label \in {"Bullish", "Strong Bullish"} THEN "bull"
    ELSE IF d.trend_label \in {"Bearish", "Strong Bearish"} THEN "bear"
    ELSE "neutral"

Count(details, flag) == Cardinality({tf \in TFS : DirFlag(details[tf]) = flag})

\* round((k / total) * 100), Python's round: halves go to the even integer
PyRoundPercent(k, total) ==
    LET q == (k * 100) \div total
        r == (k * 100) % total
    IN IF 2 * r < total THEN q
       ELSE IF 2 * r > total THEN q + 1
       ELSE IF q % 2 = 0 THEN q ELSE q + 1

\* the share of the bullish timeframes only
ConfluencePercent_BullShare(details) ==
    PyRoundPercent(Count(details, "bull"), Cardinality(TFS))

\* lines 492-507: the confluence percent of the four analyses
ConfluencePercent(details) ==
    LET bulls == Count(details, "bull")
        bears == Count(details, "bear")
        neutrals == Count(details, "neutral")
        total == Cardinality(TFS)
    IN IF bulls > bears /\ bulls > neutrals THEN PyRoundPercent(bulls, total)
       ELSE IF bears > bulls /\ bears > neutrals THEN PyRoundPercent(bears, total)
       ELSE PyRoundPercent(Max(bulls, Max(bears, neutrals)), total)

SummaryOf_Tiers(percent) ==
    IF percent = 100 THEN "Strong Bias"
    ELSE IF percent >= 75 THEN "Bias" ELSE "No Confluence"

\* line 510
SummaryOf(percent) ==
    IF percent > 0 THEN ToString(percent) \o "% confluence" ELSE "No Confluence"

\* lines 457-518: the record built from the four downloads
ComputeRecord(symbol, dfs, closed_ok) ==
    LET used == WithFallback(dfs, closed_ok)
        details == [tf \in TFS |-> _analyze_tf(used[tf], tf)]
        percent == ConfluencePercent(details)
    IN [Symbol |-> symbol,
        Confluence |-> [tf \in TFS |-> details[tf].label],
        ConfluencePercent |-> percent,
        Summary |-> SummaryOf(percent),
        Details |-> details]

FallbackRecord_FullConfluence(symbol) ==
    [Symbol |-> symbol,
     Confluence |-> [tf \in TFS |-> "No Data"],
     ConfluencePercent |-> 100,
     Summary |-> "100% confluence",
     Details |-> <<>>]

\* lines 520-529: the record of the except branch
FallbackRecord(symbol) ==
    [Symbol |-> symbol,
     Confluence |-> [tf \in TFS |-> "No Data"],
     ConfluencePercent |-> 0,
     Summary |-> "No Confluence",
     Details |-> <<>>]

\* lines 441-450: the call reads the date and starts the first download
EnterCompute(t, symbol, cretpc) ==
    LET today == clock \div DAY
        tf == FETCH_ORDER[1]
    IN Upd(t, [symbol |-> symbol, today |-> today, dfs |-> <<>>, res |-> <<>>,
               cretpc |-> cretpc] @@
              DownloadFrame(symbol, TF_SETTINGS[tf].interval, StartOf(tf, today),
                            "cs_fetched"))

\* lines 450-455: a download has returned; dfs[tf] is bound and the next
\* download starts, or the analysis is next
CsFetched(t) ==
    /\ th[t].pc = "cs_fetched"
    /\ LET k == Cardinality(DOMAIN th[t].dfs) + 1
           dfs == [tf \in DOMAIN th[t].dfs \cup {FETCH_ORDER[k]} |->
                      IF tf = FETCH_ORDER[k] THEN th[t].ret ELSE th[t].dfs[tf]]
       IN IF k < Len(FETCH_ORDER)
          THEN LET tf == FETCH_ORDER[k + 1] IN
               th' = Upd(t, [dfs |-> dfs] @@
                            DownloadFrame(th[t].symbol, TF_SETTINGS[tf].interval,
                                          StartOf(tf, th[t].today), "cs_fetched"))
          ELSE th' = Upd(t, [dfs |-> dfs, pc |-> "cs_analyze"])
    /\ UNCHANGED <<clock, CACHE, log, calls, provider, legacy>>

\* the locals of _cached_download and _compute_for_symbol once the latter
\* has returned res; dfs stays as history: the downloads res was built from
ComputeReturn(t, res) ==
    [IdleThread EXCEPT !.pc = th[t].cretpc, !.res = res, !.dfs = th[t].dfs,
                       !.gi = th[t].gi, !.out = th[t].out]

\* lines 457-518: resample, analyse, count, return the record
CsAnalyze(t) ==
    /\ th[t].pc = "cs_analyze"
    /\ th' = [th EXCEPT ![t] = ComputeReturn(t, ComputeRecord(th[t].symbol, th[t].dfs, legacy))]
    /\ UNCHANGED <<clock, CACHE, log, calls, provider, legacy>>

\* lines 520-529: an exception raised in lines 457-518 ends in the fallback
CsRaise(t) ==
    /\ th[t].pc = "cs_analyze"
    /\ th' = [th EXCEPT ![t] = [ComputeReturn(t, FallbackRecord(th[t].symbol))
                                   EXCEPT !.raised = TRUE]]
    /\ UNCHANGED <<clock, CACHE, log, calls, provider, legacy>>

----------------------------------------------------------------------------
(* get_confluence, lines 532-542 *)

\* res["Pair"] = pair_label
WithPair(res, pair_label) ==
    [f \in DOMAIN res \cup {"Pair"} |-> IF f = "Pair" THEN pair_label ELSE res[f]]

\* lines 533-538: the loop takes the next p of PAIRS and calls
\* _compute_for_symbol, or returns out
GcLoop(t) ==
    /\ th[t].pc = "gc_loop"
    /\ IF th[t].gi <= Len(PAIRS)
       THEN th' = EnterCompute(t, PAIRS[th[t].gi].Symbol, "gc_got")
       ELSE th' = Upd(t, [pc |-> "gc_returned"])
    /\ UNCHANGED <<clock, CACHE, log, calls, provider, legacy>>

AppendRecord_Prepends(t) ==
    <<WithPair(th[t].res, PAIRS[th[t].gi].Pair)>> \o th[t].out

\* lines 540-541: out after res["Pair"] = pair_label; out.append(res)
AppendRecord(t) == Append(th[t].out, WithPair(th[t].res, PAIRS[th[t].gi].Pair))

\* lines 538-541: _compute_for_symbol has returned; the record gets its Pair
\* and is appended
GcGot(t) ==
    /\ th[t].pc = "gc_got"
    /\ th' = Upd(t, [pc |-> "gc_loop", gi |-> th[t].gi + 1, res |-> <<>>,
                     raised |-> FALSE, dfs |-> <<>>, out |-> AppendRecord(t)])
    /\ UNCHANGED <<clock, CACHE, log, calls, provider, legacy>>

----------------------------------------------------------------------------
(* Sample series of the external source for the analysis *)

FlatBar(t, c) == Bar(t, c, c, c, c)

StrongBullFrame == Frame(OHLCV, <<FlatBar(0, 100), FlatBar(24, 101)>>)
BullFrame       == Frame(OHLCV, <<FlatBar(0, 1000), FlatBar(24, 1001)>>)
NeutralFrame    == Frame(OHLCV, <<FlatBar(0, 100), FlatBar(24, 100)>>)
BearFrame       == Frame(OHLCV, <<FlatBar(0, 1000), FlatBar(24, 999)>>)
StrongBearFrame == Frame(OHLCV, <<FlatBar(0, 100), FlatBar(24, 99)>>)

SymbolProvider ==
    {EmptyAnswer, StrongBullFrame, BullFrame, NeutralFrame, BearFrame, StrongBearFrame}

BatchProvider == {RaiseAnswer, StrongBullFrame}

\* what an earlier request may have left in CACHE for the H1 key of the first
\* instrument: nothing, an entry that has expired, an entry that is live
EarlierCaches ==
    LET key == CacheKey(ALL_PAIRS[1].Symbol, TF_SETTINGS["H1"].interval, "")
        clock0 == DAY - TickStep
    IN { <<>>,
         CachePut(<<>>, key, clock0 - CACHE_TTL, BearFrame),
         CachePut(<<>>, key, clock0, NoneDF) }

----------------------------------------------------------------------------
(* Specification SpecSymbol: one call of _compute_for_symbol *)

CallCompute(t, symbol) ==
    /\ th[t].pc = "idle"
    /\ calls = 0
    /\ calls' = calls + 1
    /\ th' = EnterCompute(t, symbol, "cs_returned")
    /\ UNCHANGED <<clock, CACHE, log, provider, legacy>>

InitSymbol ==
    /\ clock = DAY - TickStep
    /\ CACHE \in EarlierCaches
    /\ th = [t \in Threads |-> IdleThread]
    /\ log = <<>>
    /\ calls = 0
    /\ provider = SymbolProvider
    /\ legacy \in BOOLEAN

NextSymbol ==
    \/ \E p \in {1, Len(PAIRS)} : CallCompute(1, PAIRS[p].Symbol)
    \/ DlLookup(1)
    \/ DlPop(1)
    \/ \E r \in provider : DlAttempt(1, r)
    \/ DlStore(1)
    \/ DlGiveUp(1)
    \/ CsFetched(1)
    \/ CsAnalyze(1)
    \/ CsRaise(1)

SpecSymbol == InitSymbol /\ [][NextSymbol]_vars

----------------------------------------------------------------------------
(* Specification SpecBatch: one call of get_confluence *)

CallGetConfluence(t) ==
    /\ th[t].pc = "idle"
    /\ calls = 0
    /\ calls' = calls + 1
    /\ th' = Upd(t, [pc |-> "gc_loop", gi |-> 1, out |-> <<>>])
    /\ UNCHANGED <<clock, CACHE, log, provider, legacy>>

InitBatch ==
    /\ clock = DAY - TickStep
    /\ CACHE \in {c \in EarlierCaches :
                    DOMAIN c # {} /\ \A k \in DOMAIN c : ~Live(clock, c[k].ts)}
    /\ th = [t \in Threads |-> IdleThread]
    /\ log = <<>>
    /\ calls = 0
    /\ provider = BatchProvider
    /\ legacy \in BOOLEAN

NextBatch ==
    \/ CallGetConfluence(1)
    \/ GcLoop(1)
    \/ GcGot(1)
    \/ DlLookup(1)
    \/ DlPop(1)
    \/ \E r \in provider : DlAttempt(1, r)
    \/ DlStore(1)
    \/ DlGiveUp(1)
    \/ CsFetched(1)
    \/ CsAnalyze(1)
    \/ CsRaise(1)

SpecBatch == InitBatch /\ [][NextBatch]_vars

----------------------------------------------------------------------------
(* Specification SpecAnalyze: direct calls of _analyze_tf on short series *)

\* the longest series of the direct calls
MaxBars == 3

\* the bars a series is made of: close 99, 100 or 101, high and low at the
\* close or 3 ticks either side of it
BarChoices == {<<c, w>> : c \in {99, 100, 101}, w \in {0, 3}}

SeriesOf(n) == [1..n -> BarChoices]

\* the frame yfinance would give for the bars s, one bar a day
FrameOf(s) ==
    Frame(OHLCV, [i \in 1..Len(s) |->
                    Bar(24 * (i - 1), s[i][1], s[i][1] + s[i][2], s[i][1] - s[i][2], s[i][1])])

AnalyzeInputs == {NoneDF} \cup UNION {{FrameOf(s) : s \in SeriesOf(n)} : n \in 0..MaxBars}

\* the length of the long series: more bars than the longest trend window
ScenarioBars == 250

\* n bars whose close rises by one a bar from base + 1
RisingFrame(n, base) == FrameOf([i \in 1..n |-> <<base + i, 3>>])

\* long rising series: a steep one (from 101) and a shallow one (from 10001)
RisingInputs == {RisingFrame(ScenarioBars, base) : base \in {100, 10000}}

CallAnalyze(t, df, tf) ==
    /\ th[t].pc = "idle"
    /\ calls < MaxCalls
    /\ calls' = calls + 1
    /\ th' = Upd(t, [pc |-> "an_returned", adf |-> df, atf |-> tf,
                     analysis |-> _analyze_tf(df, tf)])
    /\ UNCHANGED <<clock, CACHE, log, provider, legacy>>

ReturnAnalyze(t) ==
    /\ th[t].pc = "an_returned"
    /\ th' = [th EXCEPT ![t] = IdleThread]
    /\ UNCHANGED <<clock, CACHE, log, calls, provider, legacy>>

InitAnalyze ==
    /\ InitCommon
    /\ provider = {}
    /\ legacy = TRUE

NextAnalyze ==
    \/ th[1].pc = "idle" /\ \E df \in AnalyzeInputs \cup RisingInputs, tf \in TFS :
                                CallAnalyze(1, df, tf)
    \/ ReturnAnalyze(1)

SpecAnalyze == InitAnalyze /\ [][NextAnalyze]_vars

----------------------------------------------------------------------------
(* Specification SpecResample: direct calls of _resample_from_daily on     *)
(* daily series, with rule "4H" or "1H", on either kind of pandas          *)

CallResample(t, df, step) ==
    /\ th[t].pc = "idle"
    /\ calls < MaxCalls
    /\ calls' = calls + 1
    /\ th' = Upd(t, [pc |-> "rs_returned", adf |-> df, rule |-> step,
                     rdf |-> _resample_from_daily(df, step, legacy)])
    /\ UNCHANGED <<clock, CACHE, log, provider, legacy>>

ReturnResample(t) ==
    /\ th[t].pc = "rs_returned"
    /\ th' = [th EXCEPT ![t] = IdleThread]
    /\ UNCHANGED <<clock, CACHE, log, calls, provider, legacy>>

InitResample ==
    /\ InitCommon
    /\ provider = {}
    /\ legacy \in BOOLEAN

NextResample ==
    \/ th[1].pc = "idle" /\ \E df \in AnalyzeInputs, step \in {4, 1} :
                                CallResample(1, df, step)
    \/ ReturnResample(1)

SpecResample == InitResample /\ [][NextResample]_vars

----------------------------------------------------------------------------
(* Specification SpecConcurrent: the request threads of the server call     *)
(* _cached_download for one key; a thread switch can come between any two   *)
(* steps, as nothing in _cached_download holds a lock                       *)

ConcurrentArgs == <<"EURUSD=X", "1d", "2025-01-01">>

ConcurrentProvider == {RaiseAnswer, Frame(OHLCV, FallingRowsUnsorted)}

\* CACHE as earlier requests left it: empty, or an expired entry of the key
ConcurrentCaches ==
    LET key == CacheKey(ConcurrentArgs[1], ConcurrentArgs[2], ConcurrentArgs[3])
    IN { <<>>, CachePut(<<>>, key, (DAY - TickStep) - CACHE_TTL, NoneDF) }

InitConcurrent ==
    /\ clock = DAY - TickStep
    /\ CACHE \in ConcurrentCaches
    /\ th = [t \in Threads |-> IdleThread]
    /\ log = <<>>
    /\ calls = 0
    /\ provider = ConcurrentProvider
    /\ legacy = TRUE

NextConcurrent ==
    \E t \in Threads :
        \/ CallDownload(t, ConcurrentArgs)
        \/ DlLookup(t)
        \/ DlPop(t)
        \/ \E r \in provider : DlAttempt(t, r)
        \/ DlStore(t)
        \/ DlGiveUp(t)
        \/ ReturnDownload(t)

SpecConcurrent == InitConcurrent /\ [][NextConcurrent]_vars

----------------------------------------------------------------------------
(* Specification SpecCompare: _analyze_tf is called on one series after    *)
(* another and the analyses are kept side by side                           *)

\* a series of two bars: the first closes at c1 in the middle of a range of
\* tr1, the second is flat at c2
TwoBars(c1, tr1, c2) ==
    Frame(OHLCV, <<Bar(0, c1, c1 + tr1 \div 2, c1 - (tr1 - tr1 \div 2), c1),
                   Bar(24, c2, c2, c2, c2)>>)

\* index levels around 100000: a fall of about 1% with a range of about 3%
CompareInputs ==
    {TwoBars(c1, tr1, c2) : c1 \in {101000, 100996}, tr1 \in {3001, 3043},
                            c2 \in {100000, 100038}}

\* history only: an analysis and what it was made of
AnalysisRecord(t) == [df |-> th[t].adf, tf |-> th[t].atf, analysis |-> th[t].analysis]

ReturnAnalyzeLogged(t) ==
    /\ th[t].pc = "an_returned"
    /\ log' = Append(log, AnalysisRecord(t))
    /\ th' = [th EXCEPT ![t] = IdleThread]
    /\ UNCHANGED <<clock, CACHE, calls, provider, legacy>>

InitCompare ==
    /\ InitCommon
    /\ provider = {}
    /\ legacy = TRUE

NextCompare ==
    \/ th[1].pc = "idle" /\ \E df \in CompareInputs, tf \in TFS : CallAnalyze(1, df, tf)
    \/ ReturnAnalyzeLogged(1)

SpecCompare == InitCompare /\ [][NextCompare]_vars

----------------------------------------------------------------------------
(* Specification SpecShape: direct calls of _detect_structure and           *)
(* _detect_bos on series of several shapes                                  *)

\* the longest of the enumerated series
MaxShapeBars == 6

\* the highs of a series, as steps 0, 1 or 2 above a base
ShapePatterns(n) == [1..n -> {0, 1, 2}]

\* the series with highs 110 + hp[i] and lows flat at 90, running parallel to
\* the highs, or mirroring them
ShapeFrame(hp, mode) ==
    Frame(OHLCV, [i \in 1..Len(hp) |->
                    Bar(24 * (i - 1), 100, 110 + hp[i],
                        CASE mode = "flat" -> 90
                          [] mode = "parallel" -> 90 + hp[i]
                          [] mode = "mirror" -> 90 - hp[i],
                        100)])

\* 14 bars: two bars far above, then twelve bars rising one tick a bar
StepFrame ==
    Frame(OHLCV, [i \in 1..14 |->
                    IF i <= 2 THEN Bar(24 * (i - 1), 100, 150, 130, 100)
                    ELSE Bar(24 * (i - 1), 100, 110 + i, 90 + i, 100)])

\* n flat bars with two swing highs, the second higher, at the 1-based
\* positions k1 < k2
SwingFrame(n, k1, k2) ==
    Frame(OHLCV, [i \in 1..n |->
                    Bar(24 * (i - 1), 100,
                        IF i = k1 THEN 111 ELSE IF i = k2 THEN 112 ELSE 110, 90, 100)])

\* series longer than the 200 indices _detect_bos scans, and one that is not
LongFrames ==
    {SwingFrame(210, 204, 207), SwingFrame(210, 100, 207), SwingFrame(201, 195, 198),
     SwingFrame(209, 190, 200), SwingFrame(207, 190, 200)}

ShapeInputs ==
    UNION {{ShapeFrame(hp, mode) : hp \in ShapePatterns(n),
                                   mode \in {"flat", "parallel", "mirror"}} :
           n \in 3..MaxShapeBars}
    \cup {StepFrame} \cup LongFrames

CallStructure(t, df, lookback) ==
    /\ th[t].pc = "idle"
    /\ calls < MaxCalls
    /\ calls' = calls + 1
    /\ th' = Upd(t, [pc |-> "st_returned", adf |-> df, lookback |-> lookback,
                     sret |-> _detect_structure(df, lookback)])
    /\ UNCHANGED <<clock, CACHE, log, provider, legacy>>

CallBos(t, df) ==
    /\ th[t].pc = "idle"
    /\ calls < MaxCalls
    /\ calls' = calls + 1
    /\ th' = Upd(t, [pc |-> "bos_returned", adf |-> df, sret |-> _detect_bos(df)])
    /\ UNCHANGED <<clock, CACHE, log, provider, legacy>>

ReturnShape(t) ==
    /\ th[t].pc \in {"st_returned", "bos_returned"}
    /\ th' = [th EXCEPT ![t] = IdleThread]
    /\ UNCHANGED <<clock, CACHE, log, calls, provider, legacy>>

InitShape ==
    /\ InitCommon
    /\ provider = {}
    /\ legacy = TRUE

NextShape ==
    \/ th[1].pc = "idle" /\ \E df \in ShapeInputs, lookback \in {3, 10, 12} :
                                CallStructure(1, df, lookback)
    \/ th[1].pc = "idle" /\ \E df \in ShapeInputs : CallBos(1, df)
    \/ ReturnShape(1)

SpecShape == InitShape /\ [][NextShape]_vars

----------------------------------------------------------------------------
(* Claims about the cache, checked under Spec *)

\* the calls the history and the threads hold that have returned to the caller
Returned ==
    [i \in 1..Len(log) |-> log[i]]
    \o (IF th[1].pc = "dl_returned"
        THEN <<CallRecord(1)>>
        ELSE <<>>)

SameSymbolInterval(k1, k2) == k1[1] = k2[1] /\ k1[2] = k2[2]

\* C1: of two calls for the same (symbol, interval) made less than CACHE_TTL
\* apart, whatever their start arguments, only the first invokes yf.download;
\* a call made once the TTL of the latest fetch for its (symbol, interval) has
\* elapsed invokes it again.
C1_SameSymbolIntervalOneFetch ==
    \A i, j \in 1..Len(Returned) :
        (i < j /\ SameSymbolInterval(Returned[i].key, Returned[j].key)
               /\ Returned[i].fetched)
        => /\ (Returned[j].now - Returned[i].now < CACHE_TTL => ~Returned[j].fetched)
           /\ ((\A k \in 1..(j - 1) :
                   (SameSymbolInterval(Returned[k].key, Returned[j].key)
                        /\ Returned[k].fetched)
                   => Returned[j].now - Returned[k].now >= CACHE_TTL)
               => Returned[j].fetched)

\* C2: a call that misses leaves CACHE[key] = (now, value returned), for a
\* Series and for None alike; every later call for that key made while the
\* entry is live returns that value and invokes yf.download zero times.
C2_MissStoresAndLiveEntryServes ==
    /\ \A t \in Threads :
          (th[t].pc = "dl_returned" /\ ~th[t].hit)
          => /\ th[t].key \in DOMAIN CACHE
             /\ CACHE[th[t].key] = Entry(th[t].now, th[t].ret)
    /\ \A i, j \in 1..Len(Returned) :
          (i < j /\ Returned[i].key = Returned[j].key /\ ~Returned[i].hit
                 /\ Live(Returned[j].now, Returned[i].now))
          => /\ Returned[j].hit
             /\ Returned[j].ret = Returned[i].ret
             /\ ~Returned[j].fetched

\* a miss that stored None, then a call for the key inside the TTL served None
C2_Witness ==
    /\ Len(Returned) >= 2
    /\ Returned[1].key = Returned[2].key
    /\ ~Returned[1].hit /\ IsNone(Returned[1].ret)
    /\ Returned[2].now > Returned[1].now
    /\ Returned[2].hit /\ IsNone(Returned[2].ret) /\ ~Returned[2].fetched

\* C3: a call that misses invokes yf.download at most DOWNLOAD_RETRIES + 1
\* times, once per answer; every answer before the last is a failure (empty,
\* no Close/Adj Close, exception); the call returns a Series exactly when its
\* last answer is usable, and None, stored as None, when DOWNLOAD_RETRIES + 1
\* answers all failed.
C3_RetryBudget ==
    \A t \in Threads :
        /\ th[t].inv <= DOWNLOAD_RETRIES + 1
        /\ th[t].inv = Len(th[t].outs)
        /\ \A k \in 1..(Len(th[t].outs) - 1) : th[t].outs[k] # "ok"
        /\ (th[t].pc = "dl_returned" /\ ~th[t].hit)
           => LET n == Len(th[t].outs) IN
              /\ n >= 1
              /\ (th[t].outs[n] = "ok") <=> ~IsNone(th[t].ret)
              /\ th[t].outs[n] # "ok" => n = DOWNLOAD_RETRIES + 1

\* three attempts failed in the three ways and the call returned None
C3_Witness ==
    /\ th[1].pc = "dl_returned"
    /\ th[1].outs = <<"raise", "empty", "noclose">>
    /\ IsNone(th[1].ret)
    /\ CacheGet(CACHE, th[1].key) = Entry(th[1].now, NoneDF)

----------------------------------------------------------------------------
(* Claims about get_confluence, checked under SpecBatch *)

\* how far a call of get_confluence has come: the instrument, the downloads
\* bound for it, the position inside the current download
Progress(t) ==
    LET pc == th[t].pc
        step == CASE pc = "gc_loop" -> 0
                  [] pc = "dl_lookup" -> 1
                  [] pc = "dl_pop" -> 2
                  [] pc = "dl_attempt" -> 3 + th[t].attempt
                  [] pc = "dl_store" -> 8
                  [] pc = "cs_fetched" -> 9
                  [] pc = "cs_analyze" -> 0
                  [] pc = "gc_got" -> 50
                  [] pc = "gc_returned" -> 1
                  [] OTHER -> 0 - 1
    IN IF pc = "idle" THEN 0 - 1
       ELSE 100 * th[t].gi + 10 * Cardinality(DOMAIN th[t].dfs) + step

\* the positions of a call that has not returned; each has a step to take
Running(t) ==
    \/ th[t].pc \in {"gc_loop", "gc_got", "dl_lookup", "dl_pop", "dl_store",
                     "cs_fetched", "cs_analyze"}
    \/ /\ th[t].pc = "dl_attempt"
       /\ MoreAttempts(th[t].attempt, DOWNLOAD_RETRIES) => provider # {}

\* C4: whatever the downloads give and wherever an instrument raises,
\* get_confluence keeps running until it returns, the records appended so far
\* are those of the instruments processed so far in the order of PAIRS, and
\* the list returned has exactly one record per entry of PAIRS, the i-th with
\* the Pair and Symbol of PAIRS[i].
C4_OneRecordPerPairInOrder ==
    /\ [](\A t \in Threads :
            /\ Len(th[t].out) <= Len(PAIRS)
            /\ \A i \in 1..Len(th[t].out) :
                  /\ th[t].out[i].Pair = PAIRS[i].Pair
                  /\ th[t].out[i].Symbol = PAIRS[i].Symbol
            /\ th[t].pc = "gc_loop" => Len(th[t].out) = th[t].gi - 1
            /\ th[t].pc = "gc_returned" => Len(th[t].out) = Len(PAIRS)
            /\ th[t].pc \notin {"idle", "gc_returned"} => Running(t)
            /\ Progress(t) <= 100 * (Len(PAIRS) + 1) + 1)
    /\ [][\A t \in Threads : th'[t] # th[t] => Progress(t)' > Progress(t)]_vars

\* the batch has returned: the first instrument raised, the second has a
\* timeframe with data and a timeframe without
C4_Witness ==
    /\ th[1].pc = "gc_returned"
    /\ th[1].out[1].Details = <<>>
    /\ \E tf \in TFS : th[1].out[2].Confluence[tf] = "No Data"
    /\ \E tf \in TFS : th[1].out[2].Confluence[tf] # "No Data"

\* C5: when processing an instrument raises, _compute_for_symbol returns to
\* get_confluence all the same, with the record "No Data" for Weekly, Daily,
\* H4 and H1, ConfluencePercent 0 and Summary "No Confluence".
C5_ExceptionGivesDegradedRecord ==
    \A t \in Threads :
        th[t].raised
        => /\ th[t].pc = "gc_got"
           /\ th[t].res.Symbol = PAIRS[th[t].gi].Symbol
           /\ \A tf \in {"Weekly", "Daily", "H4", "H1"} : th[t].res.Confluence[tf] = "No Data"
           /\ th[t].res.ConfluencePercent = 0
           /\ th[t].res.Summary = "No Confluence"

\* the second instrument raised after its downloads had given data
C5_Witness ==
    /\ th[1].raised
    /\ th[1].gi = 2
    /\ Len(th[1].out) = 1
    /\ \E k \in DOMAIN CACHE : k[1] = PAIRS[2].Symbol /\ ~IsNone(CACHE[k].df)

----------------------------------------------------------------------------
(* Claims about the record of one instrument, checked under SpecSymbol *)

\* the record _compute_for_symbol has just returned to its caller
HasRecord(t) == th[t].pc = "cs_returned"

\* a timeframe is valid when its analysis is not "No Data"
ValidTFs(res) == {tf \in DOMAIN res.Details : res.Details[tf].trend_label # None}

BullTFs(res) ==
    {tf \in DOMAIN res.Details : res.Details[tf].trend_label \in {"Bullish", "Strong Bullish"}}

BearTFs(res) ==
    {tf \in DOMAIN res.Details : res.Details[tf].trend_label \in {"Bearish", "Strong Bearish"}}

\* C6: a record whose four timeframes are all "No Data" has
\* ConfluencePercent 0 and Summary "No Confluence".
C6_AllNoDataIsZero ==
    \A t \in Threads :
        (HasRecord(t) /\ \A tf \in TFS : th[t].res.Confluence[tf] = "No Data")
        => /\ th[t].res.ConfluencePercent = 0
           /\ th[t].res.Summary = "No Confluence"

\* C7: with at least one valid timeframe, ConfluencePercent is
\* round(100 * max(bull_count, bear_count) / valid_count).
C7_PercentOverValid ==
    \A t \in Threads :
        (HasRecord(t) /\ ~th[t].raised /\ ValidTFs(th[t].res) # {})
        => th[t].res.ConfluencePercent =
              PyRoundPercent(Max(Cardinality(BullTFs(th[t].res)),
                                 Cardinality(BearTFs(th[t].res))),
                             Cardinality(ValidTFs(th[t].res)))

\* C8 as claimed: Summary is "Strong <Direction>" when all valid timeframes
\* agree on a direction, "<Direction> Bias" when the majority direction holds
\* at least 75% of them but not all, "No Confluence" when neither direction
\* holds more than half of them.
C8_SummaryTiers ==
    \A t \in Threads :
        (HasRecord(t) /\ ~th[t].raised /\ ValidTFs(th[t].res) # {})
        => LET valid == Cardinality(ValidTFs(th[t].res))
               bulls == Cardinality(BullTFs(th[t].res))
               bears == Cardinality(BearTFs(th[t].res))
               summary == th[t].res.Summary
           IN /\ bulls = valid => summary = "Strong Bullish"
              /\ bears = valid => summary = "Strong Bearish"
              /\ (bulls < valid /\ 4 * bulls >= 3 * valid) => summary = "Bullish Bias"
              /\ (bears < valid /\ 4 * bears >= 3 * valid) => summary = "Bearish Bias"
              /\ (2 * bulls <= valid /\ 2 * bears <= valid) => summary = "No Confluence"

\* the trend labels of the four timeframes, Weekly, Daily, H4, H1
TrendLabels(res) == [i \in 1..Len(TF_KEYS) |-> res.Details[TF_KEYS[i]].trend_label]

\* C8 as amended: Summary is the percent followed by "% confluence" when
\* ConfluencePercent is above 0 and "No Confluence" when it is 0; the labels
\* Bullish, Bullish, Bullish, Bearish give percent 75 and "75% confluence".
C8_SummaryIsPercentText ==
    \A t \in Threads :
        HasRecord(t)
        => /\ th[t].res.ConfluencePercent \in {0, 25, 50, 75, 100}
           /\ th[t].res.Summary =
                 (CASE th[t].res.ConfluencePercent = 0 -> "No Confluence"
                    [] th[t].res.ConfluencePercent = 25 -> "25% confluence"
                    [] th[t].res.ConfluencePercent = 50 -> "50% confluence"
                    [] th[t].res.ConfluencePercent = 75 -> "75% confluence"
                    [] th[t].res.ConfluencePercent = 100 -> "100% confluence")
           /\ (~th[t].raised
               /\ TrendLabels(th[t].res) = <<"Bullish", "Bullish", "Bullish", "Bearish">>)
              => /\ th[t].res.ConfluencePercent = 75
                 /\ th[t].res.Summary = "75% confluence"

\* the record of the labels Bullish, Bullish, Bullish, Bearish
C8_Witness ==
    /\ HasRecord(1)
    /\ ~th[1].raised
    /\ TrendLabels(th[1].res) = <<"Bullish", "Bullish", "Bullish", "Bearish">>
    /\ th[1].res.Summary = "75% confluence"

----------------------------------------------------------------------------
(* Claims about _analyze_tf, checked under SpecAnalyze *)

Directional == {"Bullish", "Strong Bullish", "Bearish", "Strong Bearish"}

\* C9: for a series of fewer than 2 bars _analyze_tf gives the trend
\* "No Data", the structure UNKNOWN and the empty BOS.
C9_FewerThanTwoBarsNoData ==
    \A t \in Threads :
        (th[t].pc = "an_returned" /\ Len(th[t].adf.rows) < 2)
        => /\ th[t].analysis.label = "No Data"
           /\ th[t].analysis.trend_label = None
           /\ th[t].analysis.structure = "UNKNOWN"
           /\ th[t].analysis.bos = ""

\* C10: for a series of at least one bar and fewer bars than the trend window
\* of the timeframe (200, 200, 50, 20) _analyze_tf gives "No Data", never a
\* directional label, and the timeframe is counted neither bullish nor bearish.
C10_BelowTrendWindowNoData ==
    \A t \in Threads :
        (th[t].pc = "an_returned" /\ Len(th[t].adf.rows) >= 1
            /\ Len(th[t].adf.rows) < EmaPeriod(th[t].atf))
        => /\ th[t].analysis.label = "No Data"
           /\ th[t].analysis.trend_label \notin Directional
           /\ DirFlag(th[t].analysis) = "neutral"

\* the EMA slope of the claimed classification: the last EMA minus the EMA two
\* bars before it, 0 with fewer than 3 EMA points
EmaSlope(df, tf) ==
    LET ema == _ema(Column(df.rows, "Close"), EmaPeriod(tf)) IN
    IF Len(ema) < 3 THEN 0 ELSE ema[Len(ema)] - ema[Len(ema) - 2]

\* C11: the trend label follows the priority order with slope agreement:
\* Strong Bullish when the distance is above the strong threshold and the EMA
\* rises, Strong Bearish when it is below minus the threshold and the EMA
\* falls, else Bullish when the distance is positive and the EMA does not
\* fall, else Bearish when it is negative and the EMA does not rise, else
\* Neutral.
C11_TrendNeedsSlopeAgreement ==
    \A t \in Threads :
        (th[t].pc = "an_returned" /\ ~IsNone(th[t].adf) /\ ~Empty(th[t].adf))
        => LET df == th[t].adf
               pct == TrendPct(df, th[t].atf)
               slope == EmaSlope(df, th[t].atf)
               strong == _is_strong(pct, _atr(df, 14), LastPrice(df))
           IN th[t].analysis.trend_label =
                 (IF pct.n > 0 /\ strong /\ slope > 0 THEN "Strong Bullish"
                  ELSE IF pct.n < 0 /\ strong /\ slope < 0 THEN "Strong Bearish"
                  ELSE IF pct.n > 0 /\ slope >= 0 THEN "Bullish"
                  ELSE IF pct.n < 0 /\ slope <= 0 THEN "Bearish"
                  ELSE "Neutral")

----------------------------------------------------------------------------
(* Claims about the fallbacks of _compute_for_symbol, checked under SpecSymbol *)

\* the timeframes whose series came from the fallback: the download gave None
\* and the fallback from Daily gave a series
Resampled(dfs, closed_ok) ==
    {tf \in {"H4", "H1", "Weekly"} :
        IsNone(dfs[tf]) /\ ~IsNone(WithFallback(dfs, closed_ok)[tf])}

\* C12: a record with a timeframe analysed on a resampled series carries a tag
\* for it: the record differs from the record of the same instrument built
\* from downloads that gave the same bars natively.
C12_ResampledIsTagged ==
    \A t \in Threads :
        (HasRecord(t) /\ ~th[t].raised /\ Resampled(th[t].dfs, legacy) # {})
        => th[t].res # ComputeRecord(th[t].res.Symbol,
                                     WithFallback(th[t].dfs, legacy), legacy)

----------------------------------------------------------------------------
(* Claims about _resample_from_daily, checked under SpecResample *)

\* C13: _resample_from_daily returns None for a source that is None, empty or
\* shorter than 2 bars; for a longer source every bar of the result has the
\* Open, High, Low and Close of the last source bar at or before it, and the
\* timestamps of the result lie from the first source timestamp up to, not
\* including, the last source timestamp plus one day.
C13_ResampleNeedsTwoBars ==
    \A t \in Threads :
        th[t].pc = "rs_returned"
        => LET src == th[t].adf
               res == th[t].rdf
           IN /\ (IsNone(src) \/ Len(src.rows) < 2) => IsNone(res)
              /\ (~IsNone(src) /\ Len(src.rows) >= 2 /\ ~IsNone(res))
                 => \A k \in 1..Len(res.rows) :
                       /\ res.rows[k].t >= MinT(src.rows)
                       /\ res.rows[k].t < MaxT(src.rows) + 24
                       /\ LET b == src.rows[LastAtOrBefore(src.rows, res.rows[k].t)]
                          IN /\ res.rows[k].Open = b.Open
                             /\ res.rows[k].High = b.High
                             /\ res.rows[k].Low = b.Low
                             /\ res.rows[k].Close = b.Close

----------------------------------------------------------------------------
(* Claims about concurrent calls, checked under SpecConcurrent *)

\* thread t is in a call of _cached_download that found no live entry
Missed(t) ==
    /\ th[t].pc \in {"dl_pop", "dl_attempt", "dl_store", "dl_returned"}
    /\ ~th[t].hit

\* C14: two threads in _cached_download for the same key that both found no
\* live entry never both invoke the external source.
C14_OneFetchPerConcurrentMiss ==
    \A t1, t2 \in Threads :
        (t1 # t2 /\ Missed(t1) /\ Missed(t2) /\ th[t1].key = th[t2].key)
        => ~(th[t1].inv > 0 /\ th[t2].inv > 0)

----------------------------------------------------------------------------
(* More claims about the fallbacks, checked under SpecSymbol *)

\* the series the fallback makes of the Daily download for timeframe tf
FallbackSeries(tf, daily_df, closed_ok) ==
    CASE tf = "H4" -> _resample_from_daily(daily_df, 4, closed_ok)
      [] tf = "H1" -> _resample_from_daily(daily_df, 1, closed_ok)
      [] tf = "Weekly" -> WeeklyFromDaily(daily_df)

----------------------------------------------------------------------------
(* More claims about the cache, checked under Spec *)

\* the timestamps of the rows rise from each row to the next
StrictlyIncreasing(rows) == \A i \in 1..(Len(rows) - 1) : rows[i].t < rows[i + 1].t

\* C16: every series _cached_download returns and every series held in CACHE
\* has strictly increasing timestamps, whatever order and duplicates the
\* source gave, and has a Close column, copied from Adj Close when the source
\* gave none.
C16_SeriesSortedDeduplicated ==
    /\ \A t \in Threads :
          (th[t].pc = "dl_returned" /\ ~IsNone(th[t].ret))
          => /\ StrictlyIncreasing(th[t].ret.rows)
             /\ "Close" \in th[t].ret.cols
             /\ \A i \in 1..Len(th[t].ret.rows) :
                   "Adj Close" \in th[t].ret.cols
                   => th[t].ret.rows[i].Close = th[t].ret.rows[i].Adj
    /\ \A k \in DOMAIN CACHE :
          ~IsNone(CACHE[k].df)
          => /\ StrictlyIncreasing(CACHE[k].df.rows)
             /\ "Close" \in CACHE[k].df.cols

----------------------------------------------------------------------------
(* Claims about pairs of analyses, checked under SpecCompare *)

\* the order Strong Bearish < Bearish < Neutral < Bullish < Strong Bullish
TrendRank(trend_label) ==
    CASE trend_label = "Strong Bearish" -> 0
      [] trend_label = "Bearish" -> 1
      [] trend_label = "Neutral" -> 2
      [] trend_label = "Bullish" -> 3
      [] trend_label = "Strong Bullish" -> 4

\* the analyses a and b had the same last EMA and the same ATR
SameEmaAndAtr(a, b) ==
    /\ LastEma(a.df, a.tf) = LastEma(b.df, b.tf)
    /\ _atr(a.df, 14).none = _atr(b.df, 14).none
    /\ _atr(a.df, 14).sum * _atr(b.df, 14).cnt = _atr(b.df, 14).sum * _atr(a.df, 14).cnt

\* C17: of two analyses with the same last EMA and the same ATR, the one with
\* the higher last close has the strictly higher trend distance and a trend
\* label that is not lower in the order from Strong Bearish to Strong Bullish.
C17_TrendMonotoneInClose ==
    \A i, j \in DOMAIN log :
        (/\ log[i].analysis.trend_label # None
         /\ log[j].analysis.trend_label # None
         /\ SameEmaAndAtr(log[i], log[j])
         /\ LastPrice(log[j].df) > LastPrice(log[i].df))
        => /\ TrendPct(log[j].df, log[j].tf).d = TrendPct(log[i].df, log[i].tf).d
           /\ TrendPct(log[j].df, log[j].tf).n > TrendPct(log[i].df, log[i].tf).n
           /\ TrendRank(log[j].analysis.trend_label)
                 >= TrendRank(log[i].analysis.trend_label)

----------------------------------------------------------------------------
(* Claims about _detect_structure and _detect_bos, checked under SpecShape *)

\* the least-squares slope of y over 0, 1, 2, ... times a positive factor: the
\* sum over the pairs i < j of (j - i) * (y[j] - y[i])
PairSlope(y) ==
    SumSeq([j \in 1..Len(y) |->
               SumSeq([i \in 1..Len(y) |->
                          IF i < j THEN (j - i) * (y[j] - y[i]) ELSE 0])])

\* the highs, or the lows, of the most recent `lookback` bars
Recent(df, column, lookback) == TailN(Column(df.rows, column), lookback)

SwingPositions(v) == {i \in 2..(Len(v) - 1) : v[i] > v[i - 1] /\ v[i] > v[i + 1]}

\* the latest two swings of v have the later one higher, and the later one is
\* among the last 8 bars
LatestSwingsRise(v) ==
    LET P == SwingPositions(v) IN
    /\ Cardinality(P) >= 2
    /\ LET p2 == CHOOSE x \in P : \A y \in P : y <= x
           p1 == CHOOSE x \in P \ {p2} : \A y \in P \ {p2} : y <= x
       IN v[p2] > v[p1] /\ p2 >= Len(v) - 7

\* C19: for a series of any length _detect_bos gives BOS_up when the latest two
\* local maxima of High rise and the later is among the last 8 bars, else
\* BOS_down when the latest two local minima of Low fall and the later is among
\* the last 8 bars, else no BOS.
C19_BosFromLatestSwings ==
    \A t \in Threads :
        th[t].pc = "bos_returned"
        => th[t].sret =
              (IF LatestSwingsRise(Column(th[t].adf.rows, "High")) THEN " (BOS_up)"
               ELSE IF LatestSwingsRise(Negate(Column(th[t].adf.rows, "Low")))
                    THEN " (BOS_down)"
               ELSE "")

\* the closes of df rise strictly from bar to bar, over at least two bars
Rising(df) ==
    /\ ~IsNone(df)
    /\ Len(df.rows) >= 2
    /\ \A i \in 2..Len(df.rows) : df.rows[i].Close > df.rows[i - 1].Close

\* C20: when _analyze_tf has been called on a series of at least two bars
\* whose close rises strictly from bar to bar, the EMA of the timeframe's
\* trend window is strictly below the close at every bar after the first,
\* and the trend label returned is Bullish or Strong Bullish.
C20_RisingCloseIsBullish ==
    \A t \in Threads :
        (th[t].pc = "an_returned" /\ Rising(th[t].adf))
        => LET close == Column(th[t].adf.rows, "Close")
               ema   == _ema(close, EmaPeriod(th[t].atf))
           IN /\ \A i \in 2..Len(close) : ema[i] < close[i] * SCALE
              /\ th[t].analysis.trend_label \in {"Bullish", "Strong Bullish"}

\* 250 rising bars have been analysed on the daily timeframe (window 200)
C20_Witness ==
    \E t \in Threads :
        /\ th[t].pc = "an_returned"
        /\ Rising(th[t].adf)
        /\ Len(th[t].adf.rows) >= ScenarioBars
        /\ th[t].atf = "Daily"
        /\ th[t].analysis.trend_label \in {"Bullish", "Strong Bullish"}

----------------------------------------------------------------------------
(* Claims about the cache entry a call leaves, checked under Spec *)

\* the start time of the latest returned call that fetched for key (stored
\* the entry), 0 when there is none
FetchTime(key) ==
    LET F == {i \in 1..Len(Returned) : Returned[i].key = key /\ ~Returned[i].hit} IN
    IF F = {} THEN 0
    ELSE Returned[CHOOSE i \in F : \A j \in F : j <= i].now

\* C21: single-threaded, when a call of _cached_download returns, CACHE has an
\* entry under the call's key whose value is the value returned (Series or
\* None) and whose timestamp is the time read at the start of the call that
\* fetched it; and no step of the call adds, changes or removes the entry of
\* any other key.
C21_EntryIsWhatWasReturned ==
    /\ [](th[1].pc = "dl_returned"
           => /\ th[1].key \in DOMAIN CACHE
              /\ CACHE[th[1].key].df = th[1].ret
              /\ CACHE[th[1].key].ts = FetchTime(th[1].key)
              /\ ~th[1].hit => CACHE[th[1].key].ts = th[1].now)
    /\ [][\A k \in DOMAIN CACHE \cup DOMAIN CACHE' :
             k # th[1].key => CacheGet(CACHE', k) = CacheGet(CACHE, k)]_vars

\* a call has fetched and returned a Series while the entry of another key,
\* stored by the call before it, is in CACHE
C21_Witness ==
    /\ th[1].pc = "dl_returned"
    /\ ~th[1].hit /\ ~IsNone(th[1].ret)
    /\ Len(log) >= 1
    /\ log[1].key # th[1].key
    /\ log[1].key \in DOMAIN CACHE
    /\ CACHE[th[1].key] = Entry(th[1].now, th[1].ret)

----------------------------------------------------------------------------
(* Claims about concurrent writers of one key, checked under SpecConcurrent *)

\* the entry of key holds a fetched Series and is inside its TTL
LiveSeries(c, key) ==
    /\ CacheGet(c, key).present
    /\ ~IsNone(CacheGet(c, key).df)
    /\ Live(clock, CacheGet(c, key).ts)

\* C22: whatever the interleaving of concurrent _cached_download calls for
\* one key, no step replaces an entry that holds a fetched Series and is
\* inside its TTL by an entry that holds None.
C22_LiveSeriesNotReplacedByNone ==
    [][\A key \in DOMAIN CACHE :
          LiveSeries(CACHE, key)
          => ~(CacheGet(CACHE', key).present /\ IsNone(CacheGet(CACHE', key).df))]_vars

----------------------------------------------------------------------------
(* Claims about the values of ConfluencePercent, checked under SpecSymbol *)

----------------------------------------------------------------------------
(* Claims about the reach of _detect_bos, checked under SpecShape *)

\* the elements of a sequence
Range(s) == {s[i] : i \in 1..Len(s)}

====
